---- MODULE Spec2Model ----
(***************************************************************************)
(* A model of rjgtoys.progressive.thread.Threaded: one Task object, the    *)
(* caller threads that use its public methods, and the worker threads that *)
(* start() spawns to execute the wrapped callable.                         *)
(*                                                                         *)
(* Attributes that Python creates on first assignment are optional values: *)
(* <<>> while the attribute does not exist yet, <<x>> once it holds x.     *)
(* Durations that sample() computes with float division are kept as exact  *)
(* fractions <<numerator, denominator>>.                                   *)
(***************************************************************************)
EXTENDS Integers, Sequences, FiniteSets, TLC

\* ---------------------------------------------------------------- bounds
MaxRuns == 2
MaxTime == 1
MaxOps == 2

\* ------------------------------------------------------ program constants
RETURN_NOTHING == 0
RETURN_VALUE == 1
RETURN_EXCEPTION == 2
DefaultTtg == 60

\* ------------------------------------------------------------- universes
Callers == {"c1", "c2"}
Workers == 1..MaxRuns
NoThread == "nobody"
NoWorker == 0
None == "None"
Unset == <<>>

Some(x) == <<x>>
Get(o) == o[1]
IsSet(o) == o # Unset

VARIABLES
    _lock,      \* owner of the Task's RLock, or NoThread
    _running,   \* self._running
    _started,   \* self._started (Event)
    _stopping,  \* self._stopping (Event)
    _steps,     \* self._steps
    _done,      \* self._done
    _updated,   \* self._updated (optional)
    since,      \* self.since (optional)
    _return,    \* self._return (optional)
    _result,    \* self._result (optional)
    _exc_info,  \* self._exc_info[1] (optional)
    _worker,    \* self._worker: the Thread object of the latest start()
    snap,       \* the attributes sample() publishes on the Task
    wk,         \* the worker threads, by the order of their creation
    caller,     \* the caller threads
    nworkers,   \* number of Thread objects created so far
    now,        \* time.time()
    goalClean,  \* history: the latest set_goal had steps >= 0 and done = 0
    sinceSnap   \* history: what ran since the latest snapshot of this run

taskvars == <<_running, _started, _stopping, _steps, _done, _updated, since,
              _return, _result, _exc_info, _worker>>
vars == <<_lock, _running, _started, _stopping, _steps, _done, _updated,
          since, _return, _result, _exc_info, _worker, snap, wk, caller,
          nworkers, now, goalClean, sinceSnap>>

\* ------------------------------------------------------------ results
Returned(v) == [kind |-> "return", val |-> v]
Raised(e) == [kind |-> "raise", val |-> e]
Pending == [kind |-> "pending", val |-> None]
NoCall == [kind |-> "nocall", val |-> None]

\* ------------------------------------------------------------ Init
\* a worker: where it is (pc), the number of progress calls its callable has
\* made (ops), the arguments of the one it is in (arg); and its history: it
\* has executed set_goal (goal), how its callable ended (out), and how many
\* wait() calls joined to it have returned a value or re-raised from the
\* slot (dels, counted up to 2)
NewWorker == [pc |-> "new", ops |-> 0, arg |-> <<>>, goal |-> FALSE,
              out |-> NoCall, dels |-> 0]
\* a caller thread: where it is (pc), the method it called last (op) and how
\* that call ended (res), the worker the call in progress created or joins
\* (jw), and the local r of wait()
NewCaller == [pc |-> "idle", op |-> "none", res |-> NoCall, jw |-> NoWorker,
              r |-> None]
NoSnap == [sampled |-> Unset, updated |-> Unset, steps |-> Unset,
           done |-> Unset, pcdone |-> Unset, ttg |-> Unset, eta |-> Unset,
           elapsed |-> Unset]

Init ==
    /\ _lock = NoThread
    /\ _running = FALSE
    /\ _started = FALSE
    /\ _stopping = FALSE
    /\ _steps = 0
    /\ _done = 0
    /\ _updated = Unset
    /\ since = Unset
    /\ _return = Unset
    /\ _result = Unset
    /\ _exc_info = Unset
    /\ _worker = NoWorker
    /\ snap = NoSnap
    /\ wk = [w \in Workers |-> NewWorker]
    /\ caller = [c \in Callers |-> NewCaller]
    /\ nworkers = 0
    /\ now = 0
    /\ goalClean = FALSE
    /\ sinceSnap = "none"

is_alive(w) == wk[w].pc \notin {"new", "unstarted", "dead"}

\* history: sinceSnap tells what ran since the latest snapshot of the
\* current run that showed done within [0, steps].  It is "none" when there
\* is no such snapshot or set_goal ran after it, "nonneg" when only updates
\* with delta >= 0 ran since, and "updates" when only updates ran since,
\* one of them with delta < 0.
AfterSnapshot ==
    IF 0 <= _done /\ _done <= _steps THEN "nonneg" ELSE "none"
AfterUpdate(delta) ==
    IF sinceSnap = "nonneg" /\ delta < 0 THEN "updates" ELSE sinceSnap
InCallable(w) == wk[w].pc \in {"call", "goal221", "upd232"}

\* ------------------------------------------------------------ helpers
\* the values a call of time.time() can return: the clock never runs
\* backwards, and it advances only where the program reads it
Clock == {t \in now..(now + 1) : t <= MaxTime}
Clamp(d, s) == LET a == IF d > s THEN s ELSE d IN IF a < 0 THEN 0 ELSE a

Call(c, op, pc) == [caller EXCEPT ![c] = [@ EXCEPT !.pc = pc, !.op = op,
                                                     !.res = Pending]]
Finish(c, res) == [caller EXCEPT ![c] = [@ EXCEPT !.pc = "idle", !.res = res,
                                                    !.jw = NoWorker,
                                                    !.r = None]]
UpTo2(n) == IF n < 2 THEN n + 1 ELSE 2
Goto(c, pc) == [caller EXCEPT ![c].pc = pc]
StartsPending == Cardinality({c \in Callers : caller[c].pc = "start173"})

\* ------------------------------------------------------------ start()
\* a start() that never finds the Task active
AlreadyRunningNever == FALSE

\* line 175: the test that rejects a start() on an active Task
AlreadyRunning == _running

\* a start() that does not clear the started Event
StartedNotCleared == _started

\* line 179: the started Event after self._started.clear()
StartedAfterClear == FALSE

\* a start() that leaves the running flag set when it gives up
RunningKept == _running

\* line 193: the running flag after the starter saw the worker dead
RunningAfterAbort == FALSE

\* a caller thread calls start() (op = "start") or __call__ (op = "invoke")
\* and arrives at the with-statement of line 173
StartCall(c, op) ==
    /\ caller[c].pc = "idle"
    /\ op \in {"start", "invoke"}
    /\ nworkers + StartsPending < MaxRuns
    /\ caller' = Call(c, op, "start173")
    /\ UNCHANGED <<_lock, taskvars, snap, wk, nworkers, now, goalClean,
                   sinceSnap>>

\* a start() that resets the handshake state before it tests the flag
StartRejectedAfterReset(c) ==
    /\ caller[c].pc = "start173"
    /\ _lock = NoThread
    /\ AlreadyRunning
    /\ _started' = FALSE
    /\ since' = Some(now)
    /\ caller' = Finish(c, Raised("AlreadyStartedError"))
    /\ UNCHANGED <<_lock, _running, _stopping, _steps, _done, _updated,
                   _return, _result, _exc_info, _worker, snap, wk, nworkers,
                   now, goalClean, sinceSnap>>

\* lines 173-176: the lock is taken, the Task is active, the call raises
StartRejected(c) ==
    /\ caller[c].pc = "start173"
    /\ _lock = NoThread
    /\ AlreadyRunning
    /\ caller' = Finish(c, Raised("AlreadyStartedError"))
    /\ UNCHANGED <<_lock, taskvars, snap, wk, nworkers, now, goalClean,
                   sinceSnap>>

\* a start() that withdraws an earlier stop request
StoppingCleared == FALSE

\* lines 178-181: start() clears self._started and leaves self._stopping
\* as it is
StoppingAfterStart == _stopping

\* lines 173-186: the lock is taken, the worker is created and started;
\* the caller goes on to the handshake loop holding the lock
StartSpawn(c) ==
    /\ caller[c].pc = "start173"
    /\ _lock = NoThread
    /\ ~AlreadyRunning
    /\ nworkers < MaxRuns
    /\ _lock' = c
    /\ _running' = TRUE
    /\ _started' = StartedAfterClear
    /\ _stopping' = StoppingAfterStart
    /\ \E t \in Clock : now' = t /\ since' = Some(t)
    /\ nworkers' = nworkers + 1
    /\ _worker' = nworkers + 1
    /\ wk' = [wk EXCEPT ![nworkers + 1].pc = "run144"]
    /\ caller' = [caller EXCEPT ![c] = [@ EXCEPT !.pc = "start191",
                                                 !.jw = nworkers + 1]]
    /\ sinceSnap' = "none"
    /\ UNCHANGED <<_steps, _done, _updated, _return, _result,
                   _exc_info, snap, goalClean>>

\* lines 173-189: threading.Thread.start() fails; the except clause resets
\* the running flag and the error leaves start()
StartSpawnFails(c) ==
    /\ caller[c].pc = "start173"
    /\ _lock = NoThread
    /\ ~AlreadyRunning
    /\ nworkers < MaxRuns
    /\ _running' = FALSE
    /\ _started' = StartedAfterClear
    /\ \E t \in Clock : now' = t /\ since' = Some(t)
    /\ nworkers' = nworkers + 1
    /\ _worker' = nworkers + 1
    /\ wk' = [wk EXCEPT ![nworkers + 1].pc = "unstarted"]
    /\ caller' = Finish(c, Raised("ThreadError"))
    /\ sinceSnap' = "none"
    /\ UNCHANGED <<_lock, _stopping, _steps, _done, _updated, _return,
                   _result, _exc_info, snap, goalClean>>

\* line 191: self._started.wait(1.0) returns True; start() returns and the
\* lock is released; __call__ goes on to wait() (line 296)
StartReturns(c) ==
    /\ caller[c].pc = "start191"
    /\ _started
    /\ _lock' = NoThread
    /\ caller' = IF caller[c].op = "invoke"
                 THEN [caller EXCEPT ![c] = [@ EXCEPT !.pc = "wait274",
                                      !.op = "invoke296", !.jw = _worker]]
                 ELSE Finish(c, Returned(None))
    /\ UNCHANGED <<taskvars, snap, wk, nworkers, now, goalClean, sinceSnap>>

\* line 191: self._started.wait(1.0) times out and returns False
StartTimeout(c) ==
    /\ caller[c].pc = "start191"
    /\ ~_started
    /\ caller' = Goto(c, "start192")
    /\ UNCHANGED <<_lock, taskvars, snap, wk, nworkers, now, goalClean,
                   sinceSnap>>

\* lines 192-194: the liveness test of the poll loop
StartCheckAlive(c) ==
    /\ caller[c].pc = "start192"
    /\ IF is_alive(_worker)
       THEN /\ caller' = Goto(c, "start191")
            /\ UNCHANGED <<_lock, _running>>
       ELSE /\ _running' = RunningAfterAbort
            /\ _lock' = NoThread
            /\ caller' = Finish(c, Raised("ActionFailedError"))
    /\ UNCHANGED <<_started, _stopping, _steps, _done, _updated, since,
                   _return, _result, _exc_info, _worker, snap, wk, nworkers,
                   now, goalClean, sinceSnap>>

\* ------------------------------------------------------------ the worker
Step(w, pc) == [wk EXCEPT ![w].pc = pc]

\* a run() that creates the outcome slot when the Task has none and
\* otherwise calls the target without resetting it
SlotKept ==
    IF IsSet(_return) THEN <<_return, _result, _exc_info>>
    ELSE <<Some(RETURN_NOTHING), Some(None), Some(None)>>

\* lines 144-146: self._return, self._result and self._exc_info[1] after
\* the reset that run() makes before it calls the target
SlotAfter144 == <<Some(RETURN_NOTHING), Some(None), Some(None)>>

\* lines 144-146: run() resets the outcome slot before calling the target
Run144(w) ==
    /\ wk[w].pc = "run144"
    /\ _return' = SlotAfter144[1]
    /\ _result' = SlotAfter144[2]
    /\ _exc_info' = SlotAfter144[3]
    /\ wk' = Step(w, "call")
    /\ UNCHANGED <<_lock, _running, _started, _stopping, _steps, _done,
                   _updated, since, _worker, snap, caller, nworkers, now,
                   goalClean, sinceSnap>>

\* lines 219-220: the callable calls set_goal(steps, done); no lock is taken
SetGoal220(w, s, d) ==
    /\ wk[w].pc = "call"
    /\ wk[w].ops < MaxOps
    /\ _steps' = IF IsSet(s) THEN Get(s) ELSE _steps
    /\ wk' = [wk EXCEPT ![w] = [@ EXCEPT !.pc = "goal221", !.arg = <<s, d>>,
                                         !.ops = @ + 1]]
    /\ goalClean' = FALSE
    /\ sinceSnap' = "none"
    /\ UNCHANGED <<_lock, _running, _started, _stopping, _done, _updated,
                   since, _return, _result, _exc_info, _worker, snap, caller,
                   nworkers, now>>

\* lines 221-224: the rest of set_goal, ending with self._started.set()
SetGoal221(w) ==
    /\ wk[w].pc = "goal221"
    /\ _done' = wk[w].arg[2]
    /\ \E t \in Clock : now' = t /\ _updated' = Some(t)
    /\ _started' = TRUE
    /\ wk' = [wk EXCEPT ![w] = [@ EXCEPT !.pc = "call", !.arg = <<>>,
                                         !.goal = TRUE]]
    /\ goalClean' = (IsSet(wk[w].arg[1]) /\ Get(wk[w].arg[1]) >= 0
                     /\ wk[w].arg[2] = 0)
    /\ sinceSnap' = "none"
    /\ UNCHANGED <<_lock, _running, _stopping, _steps, since, _return,
                   _result, _exc_info, _worker, snap, caller, nworkers>>

\* line 232: the callable calls update(delta) and waits for the lock
UpdateCall(w, delta) ==
    /\ wk[w].pc = "call"
    /\ wk[w].ops < MaxOps
    /\ wk' = [wk EXCEPT ![w] = [@ EXCEPT !.pc = "upd232", !.arg = <<delta>>,
                                         !.ops = @ + 1]]
    /\ UNCHANGED <<_lock, taskvars, snap, caller, nworkers, now, goalClean,
                   sinceSnap>>

\* an update() that does not clamp
DoneUnclamped(delta) == _done + delta

\* an update() that stores its argument instead of adding it
DoneAssigned(delta) == Clamp(delta, _steps)

\* lines 237-242: the new value of self._done
DoneAfterUpdate(delta) == Clamp(_done + delta, _steps)

\* lines 232-242: the body of update(), under the lock
Update232(w) ==
    /\ wk[w].pc = "upd232"
    /\ _lock = NoThread
    /\ \E t \in Clock : now' = t /\ _updated' = Some(t)
    /\ _done' = DoneAfterUpdate(wk[w].arg[1])
    /\ wk' = [wk EXCEPT ![w] = [@ EXCEPT !.pc = "call", !.arg = <<>>]]
    /\ sinceSnap' = AfterUpdate(wk[w].arg[1])
    /\ UNCHANGED <<_lock, _running, _started, _stopping, _steps, since,
                   _return, _result, _exc_info, _worker, snap, caller,
                   nworkers, goalClean>>

\* lines 149-150: the callable returns v
Return150(w, v) ==
    /\ wk[w].pc = "call"
    /\ _return' = Some(RETURN_VALUE)
    /\ wk' = [wk EXCEPT ![w] = [@ EXCEPT !.pc = "ret151", !.arg = <<v>>,
                                         !.out = Returned(v)]]
    /\ UNCHANGED <<_lock, _running, _started, _stopping, _steps, _done,
                   _updated, since, _result, _exc_info, _worker, snap, caller,
                   nworkers, now, goalClean, sinceSnap>>

\* line 151
Return151(w) ==
    /\ wk[w].pc = "ret151"
    /\ _result' = Some(wk[w].arg[1])
    /\ wk' = [wk EXCEPT ![w] = [@ EXCEPT !.pc = "bk160", !.arg = <<>>]]
    /\ UNCHANGED <<_lock, _running, _started, _stopping, _steps, _done,
                   _updated, since, _return, _exc_info, _worker, snap, caller,
                   nworkers, now, goalClean, sinceSnap>>

\* line 154: self._exc_info after the except clause handled failure e.  The
\* module imports threading, time and rjgtoys.xc only (lines 12-15), so
\* evaluating sys.exc_info() raises NameError and nothing is assigned.
ExcInfoAfter154(e) == _exc_info

\* line 154: where the worker is after the except clause: the NameError
\* leaves run() and _run_stop() and ends the thread
PcAfter154 == "dead"

\* lines 149, 152-154: the callable raises e
Raise153(w, e) ==
    /\ wk[w].pc = "call"
    /\ _return' = Some(RETURN_EXCEPTION)
    /\ _exc_info' = ExcInfoAfter154(e)
    /\ wk' = [wk EXCEPT ![w] = [@ EXCEPT !.pc = PcAfter154,
                                         !.out = Raised(e)]]
    /\ UNCHANGED <<_lock, _running, _started, _stopping, _steps, _done,
                   _updated, since, _result, _worker, snap, caller, nworkers,
                   now, goalClean, sinceSnap>>

\* lines 160-161: _run_stop skips the bookkeeping when set_goal never ran
RunStop160(w) ==
    /\ wk[w].pc = "bk160"
    /\ wk' = Step(w, IF _started THEN "bk163" ELSE "dead")
    /\ UNCHANGED <<_lock, taskvars, snap, caller, nworkers, now, goalClean,
                   sinceSnap>>

\* lines 163-166: the final bookkeeping, under the lock; the thread ends
RunStop163(w) ==
    /\ wk[w].pc = "bk163"
    /\ _lock = NoThread
    /\ \E t \in Clock : now' = t /\ _updated' = Some(t)
    /\ _done' = DoneAfterUpdate(0)
    /\ _started' = FALSE
    /\ _running' = FALSE
    /\ wk' = Step(w, "dead")
    /\ UNCHANGED <<_lock, _stopping, _steps, since, _return, _result,
                   _exc_info, _worker, snap, caller, nworkers, goalClean,
                   sinceSnap>>

\* ------------------------------------------------------------ stop()
\* lines 199-200 and 244-245
Stop(c) ==
    /\ caller[c].pc = "idle"
    /\ _stopping' = TRUE
    /\ caller' = [caller EXCEPT ![c] = [@ EXCEPT !.op = "stop",
                                                 !.res = Returned(None)]]
    /\ UNCHANGED <<_lock, _running, _started, _steps, _done, _updated, since,
                   _return, _result, _exc_info, _worker, snap, wk, nworkers,
                   now, goalClean, sinceSnap>>

\* lines 202-203: what stopping() returns
stopping == _stopping

\* ------------------------------------------------------------ sample()
Abs(x) == IF x < 0 THEN 0 - x ELSE x
Sign(x) == IF x < 0 THEN 0 - 1 ELSE 1
TruncDiv(a, b) == Sign(a) * Sign(b) * (Abs(a) \div Abs(b))
FloorDiv(a, b) ==
    IF Abs(a) % Abs(b) # 0 /\ Sign(a) # Sign(b)
    THEN TruncDiv(a, b) - 1 ELSE TruncDiv(a, b)

\* lines 258-261: int(done*100/steps); "/" of two ints is floor division
\* under Python 2 and true division, truncated by int(), under Python 3
PcDone(done, steps) ==
    IF steps # 0
    THEN {TruncDiv(done * 100, steps), FloorDiv(done * 100, steps)}
    ELSE {0}

\* lines 263-267: time to go, as the fraction <<numerator, denominator>>
Ttg(pcdone, sampled, updated, snc) ==
    IF pcdone # 0
    THEN <<(updated - snc) * (100 - pcdone) - (sampled - updated) * pcdone,
           pcdone>>
    ELSE <<DefaultTtg, 1>>

\* lines 250-270: the attributes a complete sample() leaves on the Task
Snapshot(t, pcdone) ==
    [sampled |-> Some(t),
     updated |-> _updated,
     steps |-> Some(_steps),
     done |-> Some(_done),
     pcdone |-> Some(pcdone),
     ttg |-> Ttg(pcdone, t, Get(_updated), Get(since)),
     eta |-> <<Ttg(pcdone, t, Get(_updated), Get(since))[1]
                 + t * Ttg(pcdone, t, Get(_updated), Get(since))[2],
               Ttg(pcdone, t, Get(_updated), Get(since))[2]>>,
     elapsed |-> Some(t - Get(since))]

\* a caller thread calls sample() and waits for the lock (line 248)
SampleCall(c) ==
    /\ caller[c].pc = "idle"
    /\ caller' = Call(c, "sample", "sample248")
    /\ UNCHANGED <<_lock, taskvars, snap, wk, nworkers, now, goalClean,
                   sinceSnap>>

\* lines 248-270.  self._updated exists only once set_goal or update has
\* run: before that line 254 raises AttributeError, after line 252 has
\* stored the sampling time.
Sample248(c) ==
    /\ caller[c].pc = "sample248"
    /\ _lock = NoThread
    /\ \E t \in Clock :
          /\ now' = t
          /\ IF IsSet(_updated)
             THEN \E p \in PcDone(_done, _steps) :
                     /\ snap' = Snapshot(t, p)
                     /\ caller' = Finish(c, Returned(None))
                     /\ sinceSnap' = AfterSnapshot
             ELSE /\ snap' = [snap EXCEPT !.sampled = Some(t)]
                  /\ caller' = Finish(c, Raised("AttributeError"))
                  /\ UNCHANGED sinceSnap
    /\ UNCHANGED <<_lock, taskvars, wk, nworkers, goalClean>>

\* ------------------------------------------------------------ wait()
\* a caller thread calls wait() (op = "wait") or wait(timeout) (op =
\* "waitT"); line 274 reads self._worker, which exists only after a start()
WaitCall(c, op) ==
    /\ caller[c].pc = "idle"
    /\ op \in {"wait", "waitT"}
    /\ IF _worker = NoWorker
       THEN caller' = [caller EXCEPT ![c] = [@ EXCEPT !.op = op,
                                     !.res = Raised("AttributeError")]]
       ELSE caller' = [caller EXCEPT ![c] = [@ EXCEPT !.pc = "wait274",
                                     !.op = op, !.res = Pending,
                                     !.jw = _worker]]
    /\ UNCHANGED <<_lock, taskvars, snap, wk, nworkers, now, goalClean,
                   sinceSnap>>

\* line 274: join() returns when the worker has ended or, for wait(timeout),
\* when the timeout has expired; joining a thread that was never started
\* raises RuntimeError
WaitJoin(c) ==
    /\ caller[c].pc = "wait274"
    /\ IF wk[caller[c].jw].pc = "unstarted"
       THEN caller' = Finish(c, Raised("RuntimeError"))
       ELSE /\ ~is_alive(caller[c].jw) \/ caller[c].op = "waitT"
            /\ caller' = Goto(c, "wait278")
    /\ UNCHANGED <<_lock, taskvars, snap, wk, nworkers, now, goalClean,
                   sinceSnap>>

\* line 278: the test for a VALUE outcome; self._return exists only once a
\* worker has executed line 144
Wait278(c) ==
    /\ caller[c].pc = "wait278"
    /\ caller' = IF ~IsSet(_return) THEN Finish(c, Raised("AttributeError"))
                 ELSE IF Get(_return) = RETURN_VALUE THEN Goto(c, "wait279")
                 ELSE Goto(c, "wait284")
    /\ UNCHANGED <<_lock, taskvars, snap, wk, nworkers, now, goalClean,
                   sinceSnap>>

\* line 279: r = self._result
Wait279(c) ==
    /\ caller[c].pc = "wait279"
    /\ caller' = [caller EXCEPT ![c] = [@ EXCEPT !.pc = "wait280",
                                                 !.r = Get(_result)]]
    /\ UNCHANGED <<_lock, taskvars, snap, wk, nworkers, now, goalClean,
                   sinceSnap>>

\* a wait() that returns the value and leaves the slot as it is
ReturnKept == _return

\* line 280: the outcome kind after a value has been taken
ReturnAfterValue == Some(RETURN_NOTHING)

\* lines 280-282: the slot is reset and r returned
Wait280(c) ==
    /\ caller[c].pc = "wait280"
    /\ _return' = ReturnAfterValue
    /\ _result' = Some(None)
    /\ caller' = Finish(c, Returned(caller[c].r))
    /\ wk' = [wk EXCEPT ![caller[c].jw].dels = UpTo2(@)]
    /\ UNCHANGED <<_lock, _running, _started, _stopping, _steps, _done,
                   _updated, since, _exc_info, _worker, snap, nworkers, now,
                   goalClean, sinceSnap>>

\* line 285: raise self._exc_info[1]; raising None is a TypeError
Reraise == IF Get(_exc_info) = None THEN Raised("TypeError")
           ELSE Raised(Get(_exc_info))

\* lines 284-287: the slot is left as it is
Wait284(c) ==
    /\ caller[c].pc = "wait284"
    /\ IF Get(_return) = RETURN_EXCEPTION
       THEN /\ caller' = Finish(c, Reraise)
            /\ wk' = [wk EXCEPT ![caller[c].jw].dels = UpTo2(@)]
       ELSE /\ caller' = Finish(c, Raised("Bug"))
            /\ UNCHANGED wk
    /\ UNCHANGED <<_lock, taskvars, snap, nworkers, now, goalClean, sinceSnap>>

\* ------------------------------------------------------------ Next
\* what a caller thread does next; ops are the methods it calls
CallerStep(c, ops) ==
    \/ \E op \in ops \cap {"start", "invoke"} : StartCall(c, op)
    \/ StartRejected(c)
    \/ StartSpawn(c)
    \/ StartSpawnFails(c)
    \/ StartReturns(c)
    \/ StartTimeout(c)
    \/ StartCheckAlive(c)
    \/ "stop" \in ops /\ Stop(c)
    \/ "sample" \in ops /\ SampleCall(c)
    \/ Sample248(c)
    \/ \E op \in ops \cap {"wait", "waitT"} : WaitCall(c, op)
    \/ WaitJoin(c)
    \/ Wait278(c)
    \/ Wait279(c)
    \/ Wait280(c)
    \/ Wait284(c)

\* the wrapped callable is any program over the progress handle: U gives
\* the arguments it may pass and the values and failures it may end with
WorkerStep(w, U) ==
    \/ Run144(w)
    \/ \E s \in U.steps, d \in U.done : SetGoal220(w, s, d)
    \/ SetGoal221(w)
    \/ \E delta \in U.deltas : UpdateCall(w, delta)
    \/ Update232(w)
    \/ \E v \in U.values : Return150(w, v)
    \/ Return151(w)
    \/ \E e \in U.failures : Raise153(w, e)
    \/ RunStop160(w)
    \/ RunStop163(w)

NextOf(P, U) ==
    \/ \E c \in Callers : CallerStep(c, P[c])
    \/ \E w \in Workers : WorkerStep(w, U)

AllOps == {"start", "invoke", "wait", "waitT", "sample", "stop"}
BasicOps == {"start", "wait", "sample", "stop"}
WaitOps == {"wait", "invoke296"}

\* one thread starts, waits, samples and stops while another one calls
\* start()
TwoStarters == [c \in Callers |-> IF c = "c1" THEN BasicOps ELSE {"start"}]

\* one caller thread that uses the whole interface
OneCaller == [c \in Callers |-> IF c = "c1" THEN AllOps ELSE {}]

\* one caller thread that starts, waits, samples and stops
OneObserver == [c \in Callers |-> IF c = "c1" THEN BasicOps ELSE {}]

\* callables that declare a goal of one step
HandshakeInputs ==
    [steps |-> {<<1>>}, done |-> {0}, deltas |-> {1}, values |-> {"v1"},
     failures |-> {"E1"}]

\* callables with distinguishable values and failures
OutcomeInputs ==
    [steps |-> {<<1>>}, done |-> {0}, deltas |-> {1},
     values |-> {"v1", "v2"}, failures |-> {"E1", "E2"}]

\* callables with every kind of progress argument
ProgressInputs ==
    [steps |-> {<<>>, <<0>>, <<2>>}, done |-> {0, 1},
     deltas |-> {0 - 1, 0, 1}, values |-> {"v1"}, failures |-> {"E1"}]

Next == NextOf(TwoStarters, HandshakeInputs)
NextSeq == NextOf(OneCaller, OutcomeInputs)
NextProgress == NextOf(OneObserver, ProgressInputs)

Spec == Init /\ [][Next]_vars
SpecSeq == Init /\ [][NextSeq]_vars
SpecProgress == Init /\ [][NextProgress]_vars

\* scheduling: callers and workers are operating-system threads
\* (threading.Thread, line 183), so a caller that is inside a call and a
\* worker that has been started take their next step whenever that step
\* stays possible.  Nothing obliges a caller to make another call.
Scheduling ==
    /\ \A c \in Callers : WF_vars(CallerStep(c, {}))
    /\ \A w \in Workers : WF_vars(WorkerStep(w, HandshakeInputs))
SpecFair == Init /\ [][Next]_vars /\ Scheduling

\* ------------------------------------------------------------ properties
LeavesStart173(c) == caller[c].pc = "start173" /\ caller'[c].pc # "start173"
LeavesHandshake(c) ==
    /\ caller[c].pc \in {"start191", "start192"}
    /\ caller'[c].pc \notin {"start191", "start192"}

\* C1: whatever the interleaving of start() calls by several caller
\* threads, at most one worker is executing the wrapped callable, and the
\* running flag is true as long as one is.
C1_OneWorkerInCallable ==
    /\ Cardinality({w \in Workers : InCallable(w)}) <= 1
    /\ \A w \in Workers : InCallable(w) => _running

\* a second thread's start() was rejected while the worker of the first
\* thread's start() is executing the callable
C1_Witness ==
    /\ \E w \in Workers : InCallable(w)
    /\ caller["c2"].res = Raised("AlreadyStartedError")
    /\ caller["c1"].op = "start"
    /\ caller["c1"].res = Returned(None)

\* C2: a start() that finds the running flag true raises
\* AlreadyStartedError (and only such a start() does) and changes nothing of
\* the Task, its lock, its snapshot or its workers; the run it met still
\* delivers its value to wait().
C2_RejectedStartChangesNothing ==
    [][\A c \in Callers :
        /\ LeavesStart173(c) =>
             /\ _running <=> caller'[c].res = Raised("AlreadyStartedError")
             /\ _running => UNCHANGED <<_lock, taskvars, snap, wk>>
        /\ (/\ caller[c].pc = "wait280" /\ caller'[c].pc = "idle"
            /\ caller[c].jw = _worker) =>
             caller'[c].res = wk[_worker].out]_vars

\* the first run met a rejected start() of the other thread, and then
\* delivered its value to wait()
C2_Witness ==
    /\ nworkers = 1
    /\ caller["c2"].res = Raised("AlreadyStartedError")
    /\ caller["c1"].op = "wait"
    /\ caller["c1"].res = Returned("v1")

\* C3: when start() returns normally, the worker that this start() created
\* has executed set_goal.
C3_StartReturnsAfterGoal ==
    [][\A c \in Callers :
        (LeavesHandshake(c) /\ caller'[c].res # Raised("ActionFailedError"))
        => /\ caller[c].jw = _worker
           /\ wk[caller[c].jw].goal]_vars

\* the second start() returned normally although the first run, whose
\* worker declared its goal and died, had left the started Event set
C3_Witness ==
    /\ wk[1].goal /\ wk[1].out.kind = "raise"
    /\ wk[2].goal
    /\ \E c \in Callers : /\ caller[c].pc = "idle"
                          /\ caller[c].op = "start"
                          /\ caller[c].res = Returned(None)

\* C4: when the callable returns without calling set_goal, start() ends
\* with ActionFailedError, the running flag false, the started Event clear
\* and the lock free, so that the next start() is admitted.
C4_NoGoalStartFails ==
    [][\A c \in Callers :
        (/\ LeavesHandshake(c)
         /\ wk[caller[c].jw].out.kind = "return"
         /\ ~wk[caller[c].jw].goal)
        => /\ caller'[c].res = Raised("ActionFailedError")
           /\ ~_running' /\ ~_started' /\ _lock' = NoThread]_vars

\* after a first callable that returned without a goal, a second start()
\* was admitted and created its worker
C4_Witness ==
    /\ wk[1].out.kind = "return" /\ ~wk[1].goal /\ wk[1].pc = "dead"
    /\ wk[2].pc = "run144"

\* the latest completed call of caller c was a wait() without timeout (its
\* own or that of __call__) for the worker of the latest start()
Waited(c) ==
    /\ caller[c].pc = "idle"
    /\ caller[c].op \in WaitOps
    /\ _worker # NoWorker

\* C5: a failure E that the callable raises after set_goal is the failure
\* the worker stores in the outcome slot, and the failure that wait() and
\* the synchronous call raise.
C5_WaitRaisesTheFailure ==
    /\ \A w \in Workers :
         (wk[w].out.kind = "raise" /\ w = _worker) =>
            _exc_info = Some(wk[w].out.val)
    /\ \A c \in Callers :
         (Waited(c) /\ wk[_worker].goal /\ wk[_worker].out.kind = "raise")
         => caller[c].res = wk[_worker].out

\* C6: the first wait() without timeout for a run whose callable returned v
\* finds the VALUE outcome, returns v and leaves the slot NOTHING with no
\* value; no run's value is returned by two wait() calls.
C6_ValueDeliveredOnce ==
    [][\A c \in Callers :
        /\ (/\ caller[c].pc = "wait278" /\ caller'[c].pc # "wait278"
            /\ caller[c].op \in WaitOps
            /\ wk[_worker].out.kind = "return"
            /\ wk[_worker].dels = 0)
           => caller'[c].pc = "wait279"
        /\ (caller[c].pc = "wait280" /\ caller'[c].pc = "idle")
           => /\ _return' = Some(RETURN_NOTHING)
              /\ _result' = Some(None)
              /\ caller[c].op \in WaitOps => caller'[c].res = wk[_worker].out
        /\ \A w \in Workers :
              wk'[w].out.kind = "return" => wk'[w].dels <= 1]_vars

\* a wait() has returned v2, and the next wait() of the same run has raised
\* the implementation-bug error
C6_Witness ==
    /\ wk[1].out = Returned("v2") /\ wk[1].dels = 1 /\ nworkers = 1
    /\ caller["c1"].pc = "idle"
    /\ caller["c1"].op = "wait"
    /\ caller["c1"].res = Raised("Bug")
    /\ _return = Some(RETURN_NOTHING) /\ _result = Some(None)

\* C7: every outcome, VALUE or FAILURE, is delivered by one wait() only,
\* which leaves the slot NOTHING.
C7_OutcomeDeliveredOnce ==
    /\ \A w \in Workers : wk[w].dels <= 1
    /\ \A c \in Callers :
         (Waited(c) /\ wk[_worker].dels >= 1) =>
            _return = Some(RETURN_NOTHING)

\* C8: once wait() without timeout has returned or raised for a run whose
\* worker called set_goal, the running flag is false and the started Event
\* clear, whether the callable returned or raised.
C8_IdleAfterWait ==
    \A c \in Callers :
        (Waited(c) /\ wk[_worker].goal /\ wk[_worker].pc = "dead")
        => ~_running /\ ~_started

\* C9: after set_goal(steps, 0) with steps >= 0, whatever update() calls
\* follow, 0 <= done <= steps in every state and in every snapshot that
\* sample() takes.
C9_DoneWithinGoal ==
    [][/\ goalClean' => (0 <= _done' /\ _done' <= _steps')
       /\ \A c \in Callers :
            (/\ caller[c].pc = "sample248"
             /\ caller'[c].pc = "idle"
             /\ caller'[c].res = Returned(None)
             /\ goalClean)
            => /\ 0 <= Get(snap'.done)
               /\ Get(snap'.done) <= Get(snap'.steps)]_vars

\* after set_goal(2, 0) and update(1), a snapshot shows 1 of 2 done
C9_Witness ==
    /\ goalClean /\ _steps = 2 /\ _done = 1
    /\ snap.steps = Some(2) /\ snap.done = Some(1)
    /\ caller["c1"].op = "sample" /\ caller["c1"].res = Returned(None)

\* C10: a sample() taken while the worker of the latest start() has not
\* called set_goal, or before any start(), succeeds and reports
\* percent_done = 0 and time_to_go = 60.
C10_SampleBeforeGoal ==
    \A c \in Callers :
        (/\ caller[c].pc = "idle"
         /\ caller[c].op = "sample"
         /\ (_worker = NoWorker \/ ~wk[_worker].goal))
        => /\ caller[c].res = Returned(None)
           /\ snap.pcdone = Some(0)
           /\ snap.ttg = <<DefaultTtg, 1>>

\* C11: every sample() that returns a snapshot is taken while the worker of
\* the latest start() has called set_goal; none combines the since of a run
\* with counters that run's worker never declared.
C11_SnapshotOnlyAfterGoal ==
    [][\A c \in Callers :
        (/\ caller[c].pc = "sample248"
         /\ caller'[c].pc = "idle"
         /\ caller'[c].res = Returned(None)
         /\ wk[_worker].pc # "unstarted")
        => wk[_worker].goal]_vars

\* C12: a wait(timeout) that ends while the worker thread it joined is still
\* alive leaves the running flag, the started signal, the progress counters
\* and the outcome slot as they were.
C12_ExpiredWaitChangesNothing ==
    [][\A c \in Callers :
        (/\ caller[c].op = "waitT"
         /\ caller[c].pc \in {"wait278", "wait279", "wait280", "wait284"}
         /\ is_alive(caller[c].jw)
         /\ caller'[c].pc = "idle")
        => UNCHANGED <<_running, _started, _steps, _done, _updated,
                       _return, _result, _exc_info>>]_vars

\* C13: wait() raises Bug only when the worker thread it joined has ended
\* without having stored RETURN_VALUE or RETURN_EXCEPTION.
C13_BugOnlyWithoutOutcome ==
    \A c \in Callers :
        caller[c].res = Raised("Bug") =>
            /\ _worker # NoWorker
            /\ wk[_worker].pc = "dead"
            /\ wk[_worker].out = NoCall

\* a sample() of caller c returns a snapshot in this step
Snapshots(c) ==
    /\ caller[c].pc = "sample248"
    /\ caller'[c].pc = "idle"
    /\ caller'[c].res = Returned(None)

\* C14 as stated: within one run, after a snapshot with done within
\* [0, steps] and with only update calls, of any delta, until the next
\* snapshot, the next snapshot's done is not below the earlier one's.
C14_SnapshotsNeverRegress ==
    [][\A c \in Callers :
        (Snapshots(c) /\ sinceSnap # "none")
        => Get(snap'.done) >= Get(snap.done)]_vars

\* C14, amended: within one run, after a snapshot with done within
\* [0, steps] and with only update calls of delta >= 0 until the next
\* snapshot, the next snapshot's done is not below the earlier one's.
C14_SnapshotsNeverRegressNonNeg ==
    [][\A c \in Callers :
        (Snapshots(c) /\ sinceSnap = "nonneg")
        => Get(snap'.done) >= Get(snap.done)]_vars

\* after a snapshot of the run and an update(1), the observer is about to
\* take the next snapshot, which will show more done
C14_Witness ==
    /\ sinceSnap = "nonneg"
    /\ caller["c1"].pc = "sample248"
    /\ _lock = NoThread
    /\ _done > Get(snap.done)

\* C15: every update() of a worker and every sample() of a caller that
\* waits for the lock gets it and completes.
C15_ProgressCallsComplete ==
    /\ \A w \in Workers : (wk[w].pc = "upd232") ~> (wk[w].pc # "upd232")
    /\ \A c \in Callers :
          (caller[c].pc = "sample248") ~> (caller[c].pc # "sample248")

\* C16: every start() that has passed the running check and started its
\* worker leaves its handshake loop.
C16_StartCompletes ==
    \A c \in Callers :
        (caller[c].pc \in {"start191", "start192"})
            ~> (caller[c].pc \notin {"start191", "start192"})

\* C17: a start() that raises ActionFailedError belongs to a run whose
\* worker never called set_goal.
C17_FailedStartHadNoGoal ==
    [][\A c \in Callers :
        (/\ LeavesHandshake(c)
         /\ caller'[c].res = Raised("ActionFailedError"))
        => ~wk[caller[c].jw].goal]_vars

\* C18: in every state, whatever steps and done the callable passes to
\* set_goal, 0 <= done <= steps.
C18_DoneAlwaysWithinSteps == 0 <= _done /\ _done <= _steps

\* C19: no step clears the stop request: once stop() has been called,
\* stopping() returns true in every later state, through the end of the
\* run, wait() and every later start().
C19_StopRequestStays == [][stopping => stopping']_vars

\* c1 called stop() and then start(): the worker of this second run is
\* inside the callable and stopping() returns true to it
C19_Witness ==
    /\ caller["c1"].op = "start" /\ caller["c1"].pc = "start191"
    /\ caller["c1"].jw = 2
    /\ InCallable(2)
    /\ stopping

\* C20: with one caller thread, a wait() that delivers a value or re-raises
\* delivers the outcome of the worker of the latest start(), never what an
\* earlier run left in the slot.
C20_WaitDeliversLatestRun ==
    [][\A c \in Callers :
        (caller[c].pc \in {"wait280", "wait284"} /\ caller'[c].pc = "idle")
        => /\ caller[c].pc = "wait280"
              => /\ wk[_worker].out.kind = "return"
                 /\ caller'[c].res.val \in {None, wk[_worker].out.val}
           /\ (caller[c].pc = "wait284" /\ caller'[c].res # Raised("Bug"))
              => wk[_worker].out.kind = "raise"]_vars

\* the first run returned v1 and nobody waited for it; the second run
\* returned v2 and the wait() after its start() delivered v2
C20_Witness ==
    /\ wk[1].out = Returned("v1") /\ wk[1].dels = 0
    /\ wk[2].out = Returned("v2") /\ wk[2].goal
    /\ caller["c1"].pc = "idle" /\ caller["c1"].op \in WaitOps
    /\ caller["c1"].res = Returned("v2")
====
